---------------------------- MODULE Spec2Model ----------------------------
(***************************************************************************)
(* A model of the weather bot (src/bot.py): the forecast cache kept in the *)
(* weather_cache table, WeatherService.get_weather_forecast and its        *)
(* callers, the admin actions, and WeatherService.normalize_city_name.     *)
(* Checked on their own, each under its own specification, are             *)
(* WeatherService.fetch_weather (SpecFetch), the messages of one chat and  *)
(* their automatic deletion (SpecChat), the keep-alive loops of bot.py and *)
(* of src/render_wakeup.py (SpecWake), the table weather_requests          *)
(* (SpecHistory) and the dispatch of the keyboards' callbacks by           *)
(* WeatherBot.button_handler (SpecButtons).                                *)
(*                                                                         *)
(* City names are sequences of one-character strings.  The Cyrillic        *)
(* letters of the source are written with Latin letters, one for one:      *)
(*   a=а b=б v=в g=г d=д e=е h=ж z=з i=и j=й k=к l=л m=м n=н o=о p=п r=р   *)
(*   s=с t=т u=у c=ч w=ш y=ы x=ь q=я                                       *)
(* so "спб" is <<"s","p","b">> and "Санкт-Петербург" is Sankt-Peterburg.   *)
(*                                                                         *)
(* The database is the PostgreSQL one and its statements succeed; a        *)
(* handler is a task of the event loop, and handlers of different users    *)
(* may be in flight together.  A step of the model is the code a handler   *)
(* runs up to the await of fetch_weather, or from its return; the awaits   *)
(* of the Telegram calls before the lookup are folded into the first step. *)
(***************************************************************************)
EXTENDS Integers, Sequences, FiniteSets, TLC

VARIABLES
    now,            \* CURRENT_TIMESTAMP of the database, in seconds
    ticks,          \* how many times the clock has advanced
    weather_cache,  \* table weather_cache: city -> [data, timestamp]
    bot_active,     \* WeatherBot.bot_active
    task,           \* per user: the forecast lookup its handler is running
    lastWrite,      \* per key: time of the last cache_weather_data, or -1
    cleared,        \* per key: clear_cache ran since the last write
    nTarget,        \* normalisation check: the name being typed
    nLead,          \* normalisation check: the leading whitespace typed
    nBody,          \* normalisation check: the letters typed
    nTrail,         \* normalisation check: the trailing whitespace typed
    nDone,          \* normalisation check: normalize_city_name has run
    nOut            \* normalisation check: its result

cacheVars == <<now, ticks, weather_cache, bot_active, task, lastWrite, cleared>>
normVars == <<nTarget, nLead, nBody, nTrail, nDone, nOut>>

VARIABLES
    fCity,          \* fetch_weather on its own: the city it was called with
    fPc,            \* where the call is: "idle", "geo", "weather", "returned", "raised"
    fGeoLog,        \* the geocoding requests it has issued, with their outcomes
    fLoc,           \* the geocoding result it goes on with
    fResult,        \* what it returned
    fFault,         \* the failure this call met, or "none"
    fPrevFault      \* the failure the call before this one met, or "none"

fetchVars == <<fCity, fPc, fGeoLog, fLoc, fResult, fFault, fPrevFault>>

VARIABLES
    cUser,          \* one private chat with the bot: its user
    cNow,           \* the time in that chat, in seconds
    msgs,           \* the bot's messages in the chat, by message_id
    timers,         \* the auto_delete_message tasks that are asleep
    cTask,          \* the forecast lookup the chat's handler is running
    cLast           \* how the last lookup of the chat ended

chatVars == <<cUser, cNow, msgs, timers, cTask, cLast>>

VARIABLES
    wProgram,       \* the keep-alive loop that runs: "render_wakeup" or "bot"
    wUrl,           \* Config.RENDER_WAKEUP_URL is set
    wPc,            \* where the loop is
    wakeup_count,   \* the wake-ups begun so far, modulo CountMod
    wLog,           \* the responses to the attempts of this wake-up
    wReturn,        \* what wakeup_render_once returned: "none", "True", "False"
    wSlept,         \* the 10 s sleeps done of the wait between wake-ups
    wCancelled,     \* the task was cancelled
    wPrevFailed     \* the wake-up before this one failed

wakeVars == <<wProgram, wUrl, wPc, wakeup_count, wLog, wReturn, wSlept,
              wCancelled, wPrevFailed>>

VARIABLES
    weather_requests,   \* table weather_requests: a set of rows
    hClock,             \* the serial id and CURRENT_TIMESTAMP of the last insert
    hAll                \* every row ever inserted

histVars == <<weather_requests, hClock, hAll>>

VARIABLES
    bShown,             \* per user: the keyboard under the bot's last message
    bLast,              \* the last callback button_handler has dispatched
    bPresses,           \* how many callbacks it has dispatched
    favorite_cities,    \* table favorite_cities: a set of rows
    favPressed          \* per user: the cities whose "add to favourites" was pressed

buttonVars == <<bShown, bLast, bPresses, favorite_cities, favPressed>>

\* the variables of the parts that are checked on their own
auxVars == <<fetchVars, chatVars, wakeVars, histVars, buttonVars>>

\* what the steps of each part leave alone
fetchFrame == <<cacheVars, normVars, chatVars, wakeVars, histVars, buttonVars>>
chatFrame == <<cacheVars, normVars, fetchVars, wakeVars, histVars, buttonVars>>
wakeFrame == <<cacheVars, normVars, fetchVars, chatVars, histVars, buttonVars>>
histFrame == <<cacheVars, normVars, fetchVars, chatVars, wakeVars, buttonVars>>

vars == <<now, ticks, weather_cache, bot_active, task, lastWrite, cleared,
          nTarget, nLead, nBody, nTrail, nDone, nOut, auxVars>>

(***************************************************************************)
(* Bounds of the model.                                                    *)
(***************************************************************************)
MaxTicks == 1
MaxPad == 1
MaxFlips == 2

(***************************************************************************)
(* Characters and the str methods normalize_city_name uses.                *)
(***************************************************************************)
LowerLetters ==
    <<"a", "b", "v", "g", "d", "e", "h", "z", "i", "j", "k", "l", "m",
      "n", "o", "p", "r", "s", "t", "u", "c", "w", "y", "x", "q">>

UpperLetters ==
    <<"A", "B", "V", "G", "D", "E", "H", "Z", "I", "J", "K", "L", "M",
      "N", "O", "P", "R", "S", "T", "U", "C", "W", "Y", "X", "Q">>

Whitespace == {" ", "\t"}

IsLower(ch) == \E i \in 1..Len(LowerLetters) : LowerLetters[i] = ch

IsUpper(ch) == \E i \in 1..Len(UpperLetters) : UpperLetters[i] = ch

IsCased(ch) == IsLower(ch) \/ IsUpper(ch)

ToLower(ch) ==
    IF IsUpper(ch)
    THEN LowerLetters[CHOOSE i \in 1..Len(UpperLetters) : UpperLetters[i] = ch]
    ELSE ch

ToUpper(ch) ==
    IF IsLower(ch)
    THEN UpperLetters[CHOOSE i \in 1..Len(LowerLetters) : LowerLetters[i] = ch]
    ELSE ch

\* str.lower()
str_lower(s) == [i \in 1..Len(s) |-> ToLower(s[i])]

\* str.strip(): drops the leading and the trailing whitespace
RECURSIVE str_lstrip(_)
str_lstrip(s) ==
    IF s # <<>> /\ Head(s) \in Whitespace THEN str_lstrip(Tail(s)) ELSE s

RECURSIVE str_rstrip(_)
str_rstrip(s) ==
    IF s # <<>> /\ s[Len(s)] \in Whitespace
    THEN str_rstrip(SubSeq(s, 1, Len(s) - 1))
    ELSE s

str_strip(s) == str_rstrip(str_lstrip(s))

\* str.title(): a cased character is upper-cased when the character before it
\* is not cased, and lower-cased when it is
str_title(s) ==
    [i \in 1..Len(s) |->
        IF IsCased(s[i])
        THEN IF i > 1 /\ IsCased(s[i - 1]) THEN ToLower(s[i]) ELSE ToUpper(s[i])
        ELSE s[i]]

(***************************************************************************)
(* Config.CITY_ALIASES and the names it uses.                              *)
(***************************************************************************)
JoshkarOla == <<"J", "o", "w", "k", "a", "r", "-", "O", "l", "a">>
SanktPeterburg ==
    <<"S", "a", "n", "k", "t", "-", "P", "e", "t", "e", "r", "b", "u", "r", "g">>
Novosibirsk == <<"N", "o", "v", "o", "s", "i", "b", "i", "r", "s", "k">>
Ekaterinburg == <<"E", "k", "a", "t", "e", "r", "i", "n", "b", "u", "r", "g">>
Kazan == <<"K", "a", "z", "a", "n", "x">>
NizhnijNovgorod ==
    <<"N", "i", "h", "n", "i", "j", " ", "N", "o", "v", "g", "o", "r", "o", "d">>
Chelyabinsk == <<"C", "e", "l", "q", "b", "i", "n", "s", "k">>
Moskva == <<"M", "o", "s", "k", "v", "a">>

CITY_ALIASES ==
    (<<"j", "o", "w", "k", "a", "r", " ", "d", "y", "r", "a">> :> JoshkarOla)
    @@ (<<"j", "o", "w", "k", "a", "r", "d", "y", "r", "a">> :> JoshkarOla)
    @@ (<<"j", "o", "w", "k", "a", "r">> :> JoshkarOla)
    @@ (<<"s", "p", "b">> :> SanktPeterburg)
    @@ (<<"p", "i", "t", "e", "r">> :> SanktPeterburg)
    @@ (<<"n", "s", "k">> :> Novosibirsk)
    @@ (<<"e", "k", "b">> :> Ekaterinburg)
    @@ (<<"k", "a", "z", "a", "n", "x">> :> Kazan)
    @@ (<<"n", "n">> :> NizhnijNovgorod)
    @@ (<<"c", "e", "l", "q", "b", "a">> :> Chelyabinsk)

\* a plausible slip: the alias table is looked up without folding the case
normalize_city_name_nolower(city) ==
    LET city_lower == str_strip(city)
    IN  IF city_lower \in DOMAIN CITY_ALIASES
        THEN CITY_ALIASES[city_lower]
        ELSE str_title(str_strip(city))

\* WeatherService.normalize_city_name
normalize_city_name(city) ==
    LET city_lower == str_strip(str_lower(city))
    IN  IF city_lower \in DOMAIN CITY_ALIASES
        THEN CITY_ALIASES[city_lower]
        ELSE str_title(str_strip(city))

(***************************************************************************)
(* Program constants and the values of the model.                          *)
(***************************************************************************)
CACHE_DURATION == 1800

\* the clock advances by one of these numbers of seconds: to the last second
\* before a row written now expires, or to the second it expires
Steps == {CACHE_DURATION - 1, CACHE_DURATION}

\* the users table: init_db makes the user ADMIN_ID an administrator
ADMIN_ID == "admin"
Users == {"admin", "u1"}

\* Database.is_admin
is_admin(user_id) == user_id = ADMIN_ID

\* the city texts users send: an alias in mixed case with a trailing blank,
\* the full name it stands for in lower case, and a city without alias
Queries ==
    {<<"S", "P", "b", " ">>,
     str_lower(SanktPeterburg),
     Moskva}

Keys == {normalize_city_name(q) : q \in Queries}

\* Python's None, and the forecast dict fetch_weather returns for a city at
\* time t: the upstream data, which changes with time
None == <<>>
Forecast(city, t) == <<"forecast", normalize_city_name(city), t>>

\* json.dumps and json.loads
json_dumps(forecast) == <<"json", forecast>>
json_loads(data) == data[2]
IsJson(data) == Len(data) = 2 /\ data[1] = "json"

(***************************************************************************)
(* Database: the weather_cache table.                                      *)
(***************************************************************************)
\* a plausible slip: ON CONFLICT updates the data and keeps the old timestamp
cache_weather_data_keep_ts(city, data) ==
    [c \in DOMAIN weather_cache \cup {city} |->
        IF c = city
        THEN [data |-> data,
              timestamp |-> IF city \in DOMAIN weather_cache
                            THEN weather_cache[city].timestamp ELSE now]
        ELSE weather_cache[c]]

\* Database.cache_weather_data: the table after the upsert
cache_weather_data(city, data) ==
    [c \in DOMAIN weather_cache \cup {city} |->
        IF c = city THEN [data |-> data, timestamp |-> now]
        ELSE weather_cache[c]]

\* a plausible slip: <= in place of <
get_cached_weather_le(city, max_age) ==
    IF city \in DOMAIN weather_cache
       /\ now - weather_cache[city].timestamp <= max_age
    THEN weather_cache[city].data
    ELSE None

\* a plausible slip: the age condition left out of the query
get_cached_weather_noage(city, max_age) ==
    IF city \in DOMAIN weather_cache
    THEN weather_cache[city].data
    ELSE None

\* Database.get_cached_weather
get_cached_weather(city, max_age) ==
    IF city \in DOMAIN weather_cache
       /\ now - weather_cache[city].timestamp < max_age
    THEN weather_cache[city].data
    ELSE None

\* Database.clear_cache: the table after DELETE FROM weather_cache
clear_cache == [c \in {} |-> [data |-> None, timestamp |-> 0]]

(***************************************************************************)
(* WeatherService.get_weather_forecast.  The coroutine runs without        *)
(* suspension up to "await cls.fetch_weather(city)" and again from the     *)
(* fetch's return to its own return: these are its two steps.              *)
(***************************************************************************)
Idle ==
    [pc |-> "idle", city |-> <<>>, key |-> <<>>, result |-> None,
     src |-> "none", fetched |-> "none", stale |-> FALSE]

\* the call up to its first suspension: the cache lookup, and on a miss the
\* invocation of fetch_weather
GetWeatherForecast(u, city) ==
    LET normalized_city == normalize_city_name(city)
        cached == get_cached_weather(normalized_city, CACHE_DURATION)
        \* for the record: the table held a row of the key, too old to serve
        stale == /\ normalized_city \in DOMAIN weather_cache
                 /\ now - weather_cache[normalized_city].timestamp >= CACHE_DURATION
    IN  IF cached # None /\ IsJson(cached)
        THEN /\ task' = [task EXCEPT ![u] =
                    [pc |-> "done", city |-> city, key |-> normalized_city,
                     result |-> json_loads(cached), src |-> "cache",
                     fetched |-> "none", stale |-> FALSE]]
        ELSE task' = [task EXCEPT ![u] =
                    [pc |-> "fetching", city |-> city, key |-> normalized_city,
                     result |-> None, src |-> "none", fetched |-> "none",
                     stale |-> stale]]

\* a plausible slip: the "if forecast:" test left out
CacheForecast_always(normalized_city, forecast) ==
    cache_weather_data(normalized_city, json_dumps(forecast))

\* a plausible slip: a failed refresh drops the row of the key
CacheForecast_evict(normalized_city, forecast) ==
    IF forecast # None
    THEN cache_weather_data(normalized_city, json_dumps(forecast))
    ELSE [c \in DOMAIN weather_cache \ {normalized_city} |-> weather_cache[c]]

\* "if forecast: db.cache_weather_data(normalized_city, json.dumps(forecast))":
\* the table after the fetch has returned
CacheForecast(normalized_city, forecast) ==
    IF forecast # None
    THEN cache_weather_data(normalized_city, json_dumps(forecast))
    ELSE weather_cache

\* fetch_weather returns to get_weather_forecast: a forecast (ok) or None
FetchReturn(u, ok) ==
    /\ task[u].pc = "fetching"
    /\ LET forecast == IF ok THEN Forecast(task[u].city, now) ELSE None
           k == task[u].key
       IN  /\ weather_cache' = CacheForecast(k, forecast)
           /\ task' = [task EXCEPT ![u] =
                  [@ EXCEPT !.pc = "done", !.result = forecast, !.src = "fetch",
                            !.fetched = IF ok THEN "ok" ELSE "fail"]]
           /\ lastWrite' = IF ok THEN [lastWrite EXCEPT ![k] = now] ELSE lastWrite
           /\ cleared' = IF ok THEN [cleared EXCEPT ![k] = FALSE] ELSE cleared
    /\ UNCHANGED <<now, ticks, bot_active>>
    /\ UNCHANGED normVars
    /\ UNCHANGED auxVars

(***************************************************************************)
(* WeatherBot: the handlers.                                               *)
(***************************************************************************)
\* button_handler with action "city_<city>": get_weather_for_city
CityButton(u, city) ==
    /\ task[u].pc = "idle"
    /\ IF ~bot_active /\ ~is_admin(u)
       THEN UNCHANGED task
       ELSE GetWeatherForecast(u, city)
    /\ UNCHANGED <<now, ticks, weather_cache, bot_active, lastWrite, cleared>>
    /\ UNCHANGED normVars
    /\ UNCHANGED auxVars

\* handle_text_message
TextMessage(u, message_text) ==
    /\ task[u].pc = "idle"
    /\ LET text == str_strip(message_text)
       IN  IF text = <<>>
           THEN UNCHANGED task
           ELSE GetWeatherForecast(u, text)
    /\ UNCHANGED <<now, ticks, weather_cache, bot_active, lastWrite, cleared>>
    /\ UNCHANGED normVars
    /\ UNCHANGED auxVars

\* the handler has shown its reply and returns
HandlerDone(u) ==
    /\ task[u].pc = "done"
    /\ task' = [task EXCEPT ![u] = Idle]
    /\ UNCHANGED <<now, ticks, weather_cache, bot_active, lastWrite, cleared>>
    /\ UNCHANGED normVars
    /\ UNCHANGED auxVars

AdminActions == {"admin_clear_cache", "admin_toggle", "admin_stats"}

\* handle_admin_action
handle_admin_action(action) ==
    /\ weather_cache' =
           IF action = "admin_clear_cache" THEN clear_cache ELSE weather_cache
    /\ cleared' =
           IF action = "admin_clear_cache"
           THEN [k \in Keys |-> TRUE] ELSE cleared
    /\ bot_active' = IF action = "admin_toggle" THEN ~bot_active ELSE bot_active

\* button_handler with an "admin_..." action
AdminButton(u, action) ==
    /\ IF ~bot_active /\ ~is_admin(u)
       THEN UNCHANGED <<weather_cache, cleared, bot_active>>
       ELSE IF is_admin(u)
            THEN handle_admin_action(action)
            ELSE UNCHANGED <<weather_cache, cleared, bot_active>>
    /\ UNCHANGED <<now, ticks, task, lastWrite>>
    /\ UNCHANGED normVars
    /\ UNCHANGED auxVars

\* time passes
Tick(d) ==
    /\ ticks < MaxTicks
    /\ ticks' = ticks + 1
    /\ now' = now + d
    /\ UNCHANGED <<weather_cache, bot_active, task, lastWrite, cleared>>
    /\ UNCHANGED normVars
    /\ UNCHANGED auxVars

FetchIdle ==
    /\ fCity = <<>>
    /\ fPc = "idle"
    /\ fGeoLog = <<>>
    /\ fLoc = <<>>
    /\ fResult = None
    /\ fFault = "none"
    /\ fPrevFault = "none"

ChatIdle ==
    /\ cNow = 0
    /\ msgs = <<>>
    /\ timers = {}
    /\ cTask = [pc |-> "idle", msg |-> 0, city |-> <<>>]
    /\ cLast = "none"

WakeIdle ==
    /\ wPc = "loop"
    /\ wakeup_count = 0
    /\ wLog = <<>>
    /\ wReturn = "none"
    /\ wSlept = 0
    /\ wCancelled = FALSE
    /\ wPrevFailed = FALSE

HistIdle ==
    /\ weather_requests = {}
    /\ hClock = 0
    /\ hAll = {}

\* no message with a keyboard is shown
NoKeyboard == [kb |-> "none", city |-> <<>>, favs |-> {}, hist |-> FALSE]

\* no callback has been dispatched
NoDispatch ==
    [user |-> ADMIN_ID, action |-> <<>>, emitted |-> FALSE, branch |-> "none",
     raised |-> FALSE]

ButtonIdle ==
    /\ bShown = [u \in Users |-> NoKeyboard]
    /\ bLast = NoDispatch
    /\ bPresses = 0
    /\ favorite_cities = {}
    /\ favPressed = [u \in Users |-> {}]

\* the parts checked on their own, at rest
AuxIdle ==
    /\ FetchIdle
    /\ ChatIdle /\ cUser = ADMIN_ID
    /\ WakeIdle /\ wProgram = "bot" /\ wUrl = TRUE
    /\ HistIdle
    /\ ButtonIdle

NormIdle ==
    /\ nTarget = <<>>
    /\ nLead = <<>>
    /\ nBody = <<>>
    /\ nTrail = <<>>
    /\ nDone = FALSE
    /\ nOut = <<>>

CacheInit ==
    /\ now = 0
    /\ ticks = 0
    /\ weather_cache = clear_cache
    /\ bot_active = TRUE
    /\ task = [u \in Users |-> Idle]
    /\ lastWrite = [k \in Keys |-> -1]
    /\ cleared = [k \in Keys |-> FALSE]

Init == CacheInit /\ NormIdle /\ AuxIdle

Next ==
    \/ \E u \in Users, city \in Queries : CityButton(u, city)
    \/ \E u \in Users, text \in Queries : TextMessage(u, text)
    \/ \E u \in Users, ok \in BOOLEAN : FetchReturn(u, ok)
    \/ \E u \in Users : HandlerDone(u)
    \/ \E u \in Users, action \in AdminActions : AdminButton(u, action)
    \/ \E d \in Steps : Tick(d)

Spec == Init /\ [][Next]_vars

(***************************************************************************)
(* normalize_city_name on its own: a name of the alias table (an alias or  *)
(* the full name of a city) is typed letter by letter, each letter in      *)
(* either case, with whitespace before and after, and then normalised.     *)
(***************************************************************************)
Targets == DOMAIN CITY_ALIASES \cup {CITY_ALIASES[a] : a \in DOMAIN CITY_ALIASES}

CountUpper(s) == Cardinality({i \in 1..Len(s) : IsUpper(s[i])})
CountLower(s) == Cardinality({i \in 1..Len(s) : IsLower(s[i])})

nTyped == nLead \o nBody \o nTrail

TypeLeading(ws) ==
    /\ ~nDone
    /\ nBody = <<>>
    /\ Len(nLead) < MaxPad
    /\ nLead' = Append(nLead, ws)
    /\ UNCHANGED <<nTarget, nBody, nTrail, nDone, nOut>>
    /\ UNCHANGED cacheVars
    /\ UNCHANGED auxVars

\* the next letter of the name, in upper or in lower case; at most MaxFlips
\* letters differ from the all-lower or from the all-upper spelling
TypeLetter(upper) ==
    /\ ~nDone
    /\ nTrail = <<>>
    /\ Len(nBody) < Len(nTarget)
    /\ LET ch == nTarget[Len(nBody) + 1]
           typed == Append(nBody, IF upper THEN ToUpper(ch) ELSE ToLower(ch))
       IN  /\ upper => IsCased(ch)
           /\ CountUpper(typed) <= MaxFlips \/ CountLower(typed) <= MaxFlips
           /\ nBody' = typed
    /\ UNCHANGED <<nTarget, nLead, nTrail, nDone, nOut>>
    /\ UNCHANGED cacheVars
    /\ UNCHANGED auxVars

TypeTrailing(ws) ==
    /\ ~nDone
    /\ Len(nBody) = Len(nTarget)
    /\ Len(nTrail) < MaxPad
    /\ nTrail' = Append(nTrail, ws)
    /\ UNCHANGED <<nTarget, nLead, nBody, nDone, nOut>>
    /\ UNCHANGED cacheVars
    /\ UNCHANGED auxVars

Normalize ==
    /\ ~nDone
    /\ Len(nBody) = Len(nTarget)
    /\ nOut' = normalize_city_name(nTyped)
    /\ nDone' = TRUE
    /\ UNCHANGED <<nTarget, nLead, nBody, nTrail>>
    /\ UNCHANGED cacheVars
    /\ UNCHANGED auxVars

InitNorm ==
    /\ CacheInit
    /\ AuxIdle
    /\ nTarget \in Targets
    /\ nLead = <<>>
    /\ nBody = <<>>
    /\ nTrail = <<>>
    /\ nDone = FALSE
    /\ nOut = <<>>

NextNorm ==
    \/ \E ws \in Whitespace : TypeLeading(ws)
    \/ \E upper \in BOOLEAN : TypeLetter(upper)
    \/ \E ws \in Whitespace : TypeTrailing(ws)
    \/ Normalize

SpecNorm == InitNorm /\ [][NextNorm]_vars

\* the city a name of the alias table stands for
FullName(name) ==
    IF name \in DOMAIN CITY_ALIASES THEN CITY_ALIASES[name] ELSE name

(***************************************************************************)
(* C10: normalize_city_name maps every alias of the alias table, in any    *)
(* letter case and with any leading or trailing whitespace, to the same    *)
(* key as the full name of its city, itself in any letter case and with    *)
(* any surrounding whitespace: whichever of the two was typed, the result  *)
(* is the one key of that city.                                            *)
(***************************************************************************)
C10_AliasAndFullNameSameKey ==
    nDone => nOut = FullName(nTarget)

\* an alias typed in mixed case between whitespace has been normalised
C10_Witness ==
    /\ nDone
    /\ nTarget \in DOMAIN CITY_ALIASES
    /\ nLead # <<>>
    /\ nTrail # <<>>
    /\ CountUpper(nBody) > 0
    /\ CountLower(nBody) > 0

(***************************************************************************)
(* The forecast cache: the steps of a call, and what the claims say.       *)
(***************************************************************************)
\* user u's handler calls get_weather_forecast in this step
CallStep(u) == task[u].pc = "idle" /\ task'[u].pc # "idle"

\* fetch_weather returns to user u's call in this step
ReturnStep(u) == task[u].pc = "fetching" /\ task'[u].pc = "done"

\* a row was written for key k less than CACHE_DURATION seconds ago
InWindow(k) == lastWrite[k] >= 0 /\ now - lastWrite[k] < CACHE_DURATION

\* the forecast the last successful fetch for key k stored
LastPayload(k) == <<"forecast", k, lastWrite[k]>>

(***************************************************************************)
(* C1: calls for the same normalized key that overlap while no valid cache *)
(* entry exists share one upstream fetch: there are never two outstanding  *)
(* fetch_weather invocations for one key.                                  *)
(***************************************************************************)
C1_SingleFlight ==
    \A u, v \in Users :
        (u # v /\ task[u].pc = "fetching" /\ task[v].pc = "fetching")
            => task[u].key # task[v].key

C3_NeverServeExpired ==
    [][\A u \in Users :
          /\ (CallStep(u) /\ task'[u].src = "cache")
                => /\ task'[u].key \in DOMAIN weather_cache
                   /\ now - weather_cache[task'[u].key].timestamp < CACHE_DURATION
                   /\ task'[u].result = json_loads(weather_cache[task'[u].key].data)
          /\ (ReturnStep(u) /\ task'[u].fetched = "ok")
                => /\ task'[u].key \in DOMAIN weather_cache'
                   /\ weather_cache'[task'[u].key] =
                          [data |-> json_dumps(task'[u].result), timestamp |-> now]]_vars

\* a call found an expired row, did not serve it, and its fetch replaced it
C3_Witness ==
    \E u \in Users :
        /\ task[u].pc = "done"
        /\ task[u].stale
        /\ task[u].fetched = "ok"
        /\ task[u].key \in DOMAIN weather_cache
        /\ weather_cache[task[u].key].data = json_dumps(task[u].result)
        /\ weather_cache[task[u].key].timestamp >= CACHE_DURATION

(***************************************************************************)
(* C4: a call made 1800 s or more after the last successful fetch for its  *)
(* key (counted from the moment the fetch returned and its row was         *)
(* written) issues a new upstream fetch, the row being present or not.     *)
(***************************************************************************)
C4_RefetchAfterExpiry ==
    [][\A u \in Users :
          (/\ CallStep(u)
           /\ lastWrite[task'[u].key] >= 0
           /\ now - lastWrite[task'[u].key] >= CACHE_DURATION)
              => task'[u].pc = "fetching"]_vars

\* a fetch is outstanding for a key whose row is present and expired
C4_Witness ==
    \E u \in Users :
        /\ task[u].pc = "fetching"
        /\ task[u].stale
        /\ task[u].key \in DOMAIN weather_cache
        /\ lastWrite[task[u].key] = weather_cache[task[u].key].timestamp

(***************************************************************************)
(* C5: when fetch_weather returns None, get_weather_forecast returns None  *)
(* and weather_cache is unchanged: no row is created, changed or dropped.  *)
(***************************************************************************)
C5_FailedFetchKeepsCache ==
    [][\A u \in Users :
          (ReturnStep(u) /\ task'[u].fetched = "fail")
              => /\ task'[u].result = None
                 /\ weather_cache' = weather_cache]_vars

\* a refresh of an expired row failed and the row is still there
C5_Witness ==
    \E u \in Users :
        /\ task[u].pc = "done"
        /\ task[u].fetched = "fail"
        /\ task[u].stale
        /\ task[u].key \in DOMAIN weather_cache

FetchCities == Queries \cup {<<"o", "m", "s", "k">>}

\* what an await of session.get can raise
Exceptions == {"ClientError", "TimeoutError"}

\* the status codes of a response
Statuses == {200, 404, 500}

\* the "results" of a geocoding answer: none, or one place, whose "name" may
\* be missing (<<>>)
GeoNames == {SanktPeterburg, Moskva, <<>>}
GeoResults == {<<>>} \cup {<<[name |-> n]>> : n \in GeoNames}

GeoResponses ==
    {[exc |-> e, status |-> 0, results |-> <<>>] : e \in Exceptions}
    \cup {[exc |-> "none", status |-> st, results |-> r] :
              st \in Statuses, r \in GeoResults}

WeatherResponses ==
    {[exc |-> e, status |-> 0] : e \in Exceptions}
    \cup {[exc |-> "none", status |-> st] : st \in Statuses}

\* a geocoding request as issued: geo_url carries the name and language=ru,
\* geo_url_en the name alone
GeoRequest(name, language) ==
    [name |-> name, language |-> language, outcome |-> "pending", results |-> <<>>]

\* a plausible slip: the handler catches the network errors only
Caught_client_only(exc) == exc = "ClientError"

\* "except Exception as e": every exception an await raises is caught
Caught(exc) == exc \in Exceptions

\* a plausible slip: the second geocoding request is issued in any case
NeedFallback_always(results) == TRUE

\* "if not geo_data.get("results")": the second geocoding request is needed
NeedFallback(results) == results = <<>>

\* "forecast_data": the dict fetch_weather returns
forecast_data(city_name) == <<"forecast", city_name, now>>

\* fetch_weather returns
Return(result, fault) ==
    /\ fPc' = "returned"
    /\ fResult' = result
    /\ fFault' = fault

\* an await raises inside the try block
Raise(exc) ==
    IF Caught(exc)
    THEN Return(None, exc)
    ELSE /\ fPc' = "raised"
         /\ fResult' = None
         /\ fFault' = exc

\* fetch_weather(city) is called and issues its first geocoding request
FetchStart(city) ==
    /\ fPc \in {"idle", "returned"}
    /\ fCity' = city
    /\ fPc' = "geo"
    /\ fGeoLog' = <<GeoRequest(normalize_city_name(city), "ru")>>
    /\ fLoc' = <<>>
    /\ fResult' = None
    /\ fFault' = "none"
    /\ fPrevFault' = fFault
    /\ UNCHANGED fetchFrame

\* the answer to the geocoding request that is pending
GeoResponse(resp) ==
    /\ fPc = "geo"
    /\ LET i == Len(fGeoLog)
           outcome == IF resp.exc # "none" THEN "exception"
                      ELSE IF resp.status # 200 THEN "status"
                      ELSE IF resp.results = <<>> THEN "empty"
                      ELSE "match"
           logged == [fGeoLog EXCEPT
                         ![i].outcome = outcome,
                         ![i].results = IF outcome = "match" THEN resp.results ELSE <<>>]
           \* geo_data["results"] after this answer
           geo_data == IF outcome \in {"empty", "match"} THEN resp.results ELSE fLoc
       IN  IF outcome = "exception"
           THEN Raise(resp.exc) /\ fGeoLog' = logged /\ UNCHANGED fLoc
           ELSE IF i = 1 /\ outcome = "status"
           THEN Return(None, "status") /\ fGeoLog' = logged /\ UNCHANGED fLoc
           ELSE IF i = 1 /\ NeedFallback(resp.results)
           THEN /\ fGeoLog' = Append(logged, GeoRequest(fCity, "none"))
                /\ fLoc' = geo_data
                /\ UNCHANGED <<fPc, fResult, fFault>>
           ELSE /\ fGeoLog' = logged
                /\ fLoc' = geo_data
                /\ IF geo_data # <<>>
                   THEN fPc' = "weather" /\ UNCHANGED <<fResult, fFault>>
                   ELSE Return(None, IF outcome = "status" THEN "status"
                                     ELSE "not_found")
    /\ UNCHANGED <<fCity, fPrevFault>>
    /\ UNCHANGED fetchFrame

\* the answer to the forecast request
WeatherResponse(resp) ==
    /\ fPc = "weather"
    /\ LET result == fLoc[1]
           normalized_city == normalize_city_name(fCity)
           city_name == IF result.name = <<>> THEN normalized_city ELSE result.name
       IN  IF resp.exc # "none"
           THEN Raise(resp.exc)
           ELSE IF resp.status = 200
           THEN Return(forecast_data(city_name), "none")
           ELSE Return(None, "status")
    /\ UNCHANGED <<fCity, fGeoLog, fLoc, fPrevFault>>
    /\ UNCHANGED fetchFrame

InitFetch == CacheInit /\ NormIdle /\ AuxIdle

NextFetch ==
    \/ \E city \in FetchCities : FetchStart(city)
    \/ \E resp \in GeoResponses : GeoResponse(resp)
    \/ \E resp \in WeatherResponses : WeatherResponse(resp)

SpecFetch == InitFetch /\ [][NextFetch]_vars

(***************************************************************************)
(* C11: every geocoding request issued for a user query carries the        *)
(* normalized city name, never the raw text of the user.                   *)
(***************************************************************************)
C11_GeocodeNormalizedOnly ==
    \A i \in 1..Len(fGeoLog) : fGeoLog[i].name = normalize_city_name(fCity)

(***************************************************************************)
(* C12: a lookup whose first geocoding query finds nothing tries at most   *)
(* 2 further queries, in an order fixed by the city alone; no query is     *)
(* issued after one that found a match, and the lookup goes on with the    *)
(* first match.                                                            *)
(***************************************************************************)
C12_BoundedOrderedFallback ==
    /\ Len(fGeoLog) <= 3
    /\ Len(fGeoLog) >= 1 =>
           /\ fGeoLog[1].name = normalize_city_name(fCity)
           /\ fGeoLog[1].language = "ru"
    /\ Len(fGeoLog) >= 2 =>
           /\ fGeoLog[2].name = fCity
           /\ fGeoLog[2].language = "none"
    /\ \A i \in 1..Len(fGeoLog) :
           i < Len(fGeoLog) => fGeoLog[i].outcome = "empty"
    /\ (fPc = "weather" \/ fResult # None) =>
           /\ fGeoLog[Len(fGeoLog)].outcome = "match"
           /\ fLoc = fGeoLog[Len(fGeoLog)].results

\* the first query found nothing, the second found the place, and the
\* forecast was returned
C12_Witness ==
    /\ fPc = "returned"
    /\ fResult # None
    /\ Len(fGeoLog) = 2
    /\ fGeoLog[1].outcome = "empty"
    /\ fGeoLog[2].outcome = "match"

(***************************************************************************)
(* C14: a timeout, a network error or a non-200 answer of the geocoder or  *)
(* of the forecast service never leaves fetch_weather as an exception: the *)
(* call returns None, and a later call runs as usual.                      *)
(***************************************************************************)
C14_FailureReturnsNone ==
    /\ fPc # "raised"
    /\ (fPc = "returned" /\ fFault # "none") => fResult = None
    /\ fPc = "returned" => fFault \in Exceptions \cup {"status", "not_found", "none"}

\* after a call that failed, a call that timed out has returned None
C14_Witness ==
    /\ fPc = "returned"
    /\ fFault = "TimeoutError"
    /\ fPrevFault \in {"ClientError", "status"}
    /\ fResult = None

(***************************************************************************)
(* C13: once a city has been resolved successfully, a later lookup of the  *)
(* same normalized key is answered from cache, without a new call of       *)
(* fetch_weather (whose first step is a geocoding request).                *)
(***************************************************************************)
C13_ResolvedKeyNeverGeocodedAgain ==
    [][\A u \in Users :
          (CallStep(u) /\ lastWrite[task'[u].key] >= 0)
              => task'[u].pc # "fetching"]_vars

(***************************************************************************)
(* C20: while bot_active is false, no button press and no typed text of a  *)
(* user who is not the admin starts a forecast lookup.                     *)
(***************************************************************************)
C20_DisabledBotServesNoLookup ==
    [][\A u \in Users :
          (~bot_active /\ ~is_admin(u)) => ~CallStep(u)]_vars

(***************************************************************************)
(* One private chat: the messages the bot shows in it, the handlers that   *)
(* send and edit them (start, get_weather_for_city, handle_text_message)   *)
(* and the auto_delete_message tasks.  The handlers of one chat run one    *)
(* after another; the auto_delete_message tasks run beside them.           *)
(***************************************************************************)
AUTO_DELETE_DELAY == 35

\* how many messages the bot sends in the chat
MaxMsgs == 2
\* how long the chat is followed, in seconds
MaxChatTime == 70
\* the waits between two events of the chat
ChatSteps == {15, 20}

ChatCities == {Moskva, Kazan}

\* what a message shows that counts as a reply of the bot
Replies == {"welcome", "forecast", "error"}

\* message.reply_text: a new message in the chat
NewMessage(shown, city) ==
    [shown |-> shown, city |-> city, shownAt |-> cNow, alive |-> TRUE,
     deletedAt |-> -1]

\* "if not self.db.is_admin(...): asyncio.create_task(self.auto_delete_message(...))"
ScheduleAutoDelete(m) ==
    IF ~is_admin(cUser)
    THEN timers \cup {[msg |-> m, due |-> cNow + AUTO_DELETE_DELAY]}
    ELSE timers

\* start: the welcome message with the main menu
Start ==
    /\ cTask.pc = "idle"
    /\ Len(msgs) < MaxMsgs
    /\ msgs' = Append(msgs, NewMessage("welcome", <<>>))
    /\ timers' = ScheduleAutoDelete(Len(msgs) + 1)
    /\ UNCHANGED <<cUser, cNow, cTask, cLast>>
    /\ UNCHANGED chatFrame

\* button_handler with "city_<city>", pressed under message m:
\* get_weather_for_city up to the await of the lookup
PressCity(m, city) ==
    /\ cTask.pc = "idle"
    /\ m \in 1..Len(msgs)
    /\ msgs[m].alive
    /\ msgs[m].shown \in Replies
    /\ msgs' = [msgs EXCEPT ![m].shown = "loading", ![m].city = city,
                            ![m].shownAt = cNow]
    /\ cTask' = [pc |-> "fetching", msg |-> m, city |-> city]
    /\ UNCHANGED <<cUser, cNow, timers, cLast>>
    /\ UNCHANGED chatFrame

\* handle_text_message up to the await of the lookup
SendText(city) ==
    /\ cTask.pc = "idle"
    /\ Len(msgs) < MaxMsgs
    /\ msgs' = Append(msgs, NewMessage("loading", city))
    /\ cTask' = [pc |-> "fetching", msg |-> Len(msgs) + 1, city |-> city]
    /\ UNCHANGED <<cUser, cNow, timers, cLast>>
    /\ UNCHANGED chatFrame

\* the lookup returns: the loading message is edited to the forecast or to
\* the error text, and its deletion is scheduled.  Editing a message that
\* was deleted raises in the handler, which ends there.
LookupReturn(ok) ==
    /\ cTask.pc = "fetching"
    /\ LET m == cTask.msg
       IN  IF msgs[m].alive
           THEN /\ msgs' = [msgs EXCEPT
                               ![m].shown = IF ok THEN "forecast" ELSE "error",
                               ![m].shownAt = cNow]
                /\ timers' = ScheduleAutoDelete(m)
           ELSE UNCHANGED <<msgs, timers>>
    /\ cLast' = IF ok THEN "ok" ELSE "fail"
    /\ cTask' = [pc |-> "idle", msg |-> 0, city |-> <<>>]
    /\ UNCHANGED <<cUser, cNow>>
    /\ UNCHANGED chatFrame

\* auto_delete_message after its sleep: delete_message, errors swallowed
AutoDelete ==
    /\ \E t \in timers :
           /\ cNow >= t.due
           /\ timers' = timers \ {t}
           /\ msgs' = IF msgs[t.msg].alive
                      THEN [msgs EXCEPT ![t.msg].alive = FALSE,
                                        ![t.msg].deletedAt = cNow]
                      ELSE msgs
    /\ UNCHANGED <<cUser, cNow, cTask, cLast>>
    /\ UNCHANGED chatFrame

\* time passes, up to the end of the next sleep
ChatTick(d) ==
    /\ cNow + d <= MaxChatTime
    /\ \A t \in timers : cNow + d <= t.due
    /\ cNow' = cNow + d
    /\ UNCHANGED <<cUser, msgs, timers, cTask, cLast>>
    /\ UNCHANGED chatFrame

InitChat ==
    /\ CacheInit /\ NormIdle /\ FetchIdle /\ HistIdle /\ ButtonIdle
    /\ WakeIdle /\ wProgram = "bot" /\ wUrl = TRUE
    /\ ChatIdle
    /\ cUser \in Users

NextChat ==
    \/ Start
    \/ \E m \in 1..MaxMsgs, city \in ChatCities : PressCity(m, city)
    \/ \E city \in ChatCities : SendText(city)
    \/ \E ok \in BOOLEAN : LookupReturn(ok)
    \/ AutoDelete
    \/ \E d \in ChatSteps : ChatTick(d)

SpecChat == InitChat /\ [][NextChat]_vars

(***************************************************************************)
(* C15: whenever a lookup started by a city button or by a typed city      *)
(* fails, the handler ends with the error message for that city shown to   *)
(* the user, and starts no other lookup by itself.                         *)
(***************************************************************************)
C15_FailedLookupShowsError ==
    [][(cTask.pc = "fetching" /\ cTask' # cTask /\ cLast' = "fail") =>
           /\ msgs'[cTask.msg].alive
           /\ msgs'[cTask.msg].shown = "error"
           /\ msgs'[cTask.msg].city = cTask.city
           /\ cTask'.pc = "idle"]_vars

(***************************************************************************)
(* C19: a reply shown to a user who is not the admin stays in the chat     *)
(* until AUTO_DELETE_DELAY seconds after it was shown and is deleted then; *)
(* for the admin no deletion is scheduled and no message is deleted.       *)
(***************************************************************************)
C19_ReplyStaysForDelay ==
    /\ is_admin(cUser) =>
           /\ timers = {}
           /\ \A m \in 1..Len(msgs) : msgs[m].alive
    /\ ~is_admin(cUser) =>
           \A m \in 1..Len(msgs) :
               msgs[m].shown \in Replies =>
                   IF msgs[m].alive
                   THEN cNow <= msgs[m].shownAt + AUTO_DELETE_DELAY
                   ELSE msgs[m].deletedAt = msgs[m].shownAt + AUTO_DELETE_DELAY

(***************************************************************************)
(* The keep-alive loops: wakeup_render_continuous with wakeup_render_once  *)
(* (src/render_wakeup.py) and scheduled_wakeup with wake_up_render         *)
(* (src/bot.py).  A behaviour follows one of the two programs.  A step is  *)
(* the code between two awaits (a sleep or an HTTP response).              *)
(***************************************************************************)
WAKEUP_INTERVAL == 300
MAX_RETRIES == 3

\* wakeup_count is kept modulo CountMod
CountMod == 2

WakePrograms == {"render_wakeup", "bot"}

\* what an attempt can get: an exception of session.get, or a status
WakeResponses ==
    {[exc |-> e, status |-> 0] : e \in {"ClientError", "TimeoutError"}}
    \cup {[exc |-> "none", status |-> st] : st \in {200, 204, 500}}

\* "if response.status in [200, 201, 202, 204]"
Success(resp) == resp.exc = "none" /\ resp.status \in {200, 201, 202, 204}

\* a plausible slip: one attempt more
InRange_le(attempt) == attempt <= MAX_RETRIES

\* "for attempt in range(Config.MAX_RETRIES)"
InRange(attempt) == attempt < MAX_RETRIES

\* a plausible slip: the loop gives up after a wake-up that failed
AfterWakeup_stop(success) == IF success THEN "interval" ELSE "stopped"

\* wakeup_render_continuous after "success = await wakeup_render_once()":
\* the wait before the next wake-up, whatever success is
AfterWakeup(success) == "interval"

\* wakeup_render_once returns
WakeReturn(success) ==
    /\ wReturn' = IF success THEN "True" ELSE "False"
    /\ wPc' = AfterWakeup(success)

\* wakeup_render_continuous, top of "while True": the next wake-up begins
WakeBegin ==
    /\ wProgram = "render_wakeup"
    /\ wPc = "loop"
    /\ wakeup_count' = (wakeup_count + 1) % CountMod
    /\ wPrevFailed' = (wReturn = "False")
    /\ wLog' = <<>>
    /\ wSlept' = 0
    /\ IF wUrl
       THEN wPc' = "attempt" /\ wReturn' = "none"
       ELSE WakeReturn(FALSE)
    /\ UNCHANGED <<wProgram, wUrl, wCancelled>>
    /\ UNCHANGED wakeFrame

\* wakeup_render_once: the outcome of the attempt that is awaited
WakeAttempt(resp) ==
    /\ wProgram = "render_wakeup"
    /\ wPc = "attempt"
    /\ wLog' = Append(wLog, resp)
    /\ LET attempt == Len(wLog)
       IN  IF Success(resp)
           THEN WakeReturn(TRUE)
           ELSE IF attempt < MAX_RETRIES - 1
           THEN wPc' = "retry_sleep" /\ UNCHANGED wReturn
           ELSE IF InRange(attempt + 1)
           THEN UNCHANGED <<wPc, wReturn>>
           ELSE WakeReturn(FALSE)
    /\ UNCHANGED <<wProgram, wUrl, wakeup_count, wSlept, wCancelled, wPrevFailed>>
    /\ UNCHANGED wakeFrame

\* "await asyncio.sleep(Config.RETRY_DELAY)" is over
RetrySleepDone ==
    /\ wProgram = "render_wakeup"
    /\ wPc = "retry_sleep"
    /\ IF InRange(Len(wLog))
       THEN wPc' = "attempt" /\ UNCHANGED wReturn
       ELSE WakeReturn(FALSE)
    /\ UNCHANGED <<wProgram, wUrl, wakeup_count, wLog, wSlept, wCancelled,
                   wPrevFailed>>
    /\ UNCHANGED wakeFrame

\* one "await asyncio.sleep(10)" of the wait between wake-ups is over
IntervalSleepDone ==
    /\ wProgram = "render_wakeup"
    /\ wPc = "interval"
    /\ wSlept' = wSlept + 1
    /\ wPc' = IF wSlept + 1 < WAKEUP_INTERVAL \div 10 THEN "interval" ELSE "loop"
    /\ UNCHANGED <<wProgram, wUrl, wakeup_count, wLog, wReturn, wCancelled,
                   wPrevFailed>>
    /\ UNCHANGED wakeFrame

\* scheduled_wakeup: "await asyncio.sleep(600)" is over, wake_up_render begins
SchedSleepDone ==
    /\ wProgram = "bot"
    /\ wPc = "loop"
    /\ wakeup_count' = (wakeup_count + 1) % CountMod
    /\ wPrevFailed' = IF wLog = <<>> THEN FALSE
                      ELSE ~(wLog[1].exc = "none" /\ wLog[1].status = 200)
    /\ wLog' = <<>>
    /\ wPc' = IF wUrl THEN "get" ELSE "loop"
    /\ UNCHANGED <<wProgram, wUrl, wReturn, wSlept, wCancelled>>
    /\ UNCHANGED wakeFrame

\* wake_up_render: the outcome of its request; back to the sleep
SchedResponse(resp) ==
    /\ wProgram = "bot"
    /\ wPc = "get"
    /\ wLog' = <<resp>>
    /\ wPc' = "loop"
    /\ UNCHANGED <<wProgram, wUrl, wakeup_count, wReturn, wSlept, wCancelled,
                   wPrevFailed>>
    /\ UNCHANGED wakeFrame

\* the task is cancelled at the await it is suspended in
WakeCancel ==
    /\ \/ wPc \in {"attempt", "retry_sleep", "interval", "get"}
       \/ (wProgram = "bot" /\ wPc = "loop")
    /\ wCancelled' = TRUE
    /\ wPc' = "stopped"
    /\ UNCHANGED <<wProgram, wUrl, wakeup_count, wLog, wReturn, wSlept,
                   wPrevFailed>>
    /\ UNCHANGED wakeFrame

InitWake ==
    /\ CacheInit /\ NormIdle /\ FetchIdle /\ HistIdle /\ ButtonIdle
    /\ ChatIdle /\ cUser = ADMIN_ID
    /\ WakeIdle
    /\ wProgram \in WakePrograms
    /\ wUrl \in BOOLEAN

\* the steps of the loop itself
WakeRun ==
    \/ WakeBegin
    \/ \E resp \in WakeResponses : WakeAttempt(resp)
    \/ RetrySleepDone
    \/ IntervalSleepDone
    \/ SchedSleepDone
    \/ \E resp \in WakeResponses : SchedResponse(resp)

NextWake ==
    \/ WakeBegin
    \/ \E resp \in WakeResponses : WakeAttempt(resp)
    \/ RetrySleepDone
    \/ IntervalSleepDone
    \/ SchedSleepDone
    \/ \E resp \in WakeResponses : SchedResponse(resp)
    \/ WakeCancel

\* every sleep ends and every request is answered or raises (the requests
\* have a timeout), and the event loop then resumes the coroutine
SpecWake == InitWake /\ [][NextWake]_vars /\ WF_vars(WakeRun)

(***************************************************************************)
(* C16: wakeup_render_once makes at most MAX_RETRIES attempts, none after  *)
(* an attempt answered 200, 201, 202 or 204; it returns True exactly when  *)
(* an attempt got such a status, and False after MAX_RETRIES attempts that *)
(* all failed.                                                             *)
(***************************************************************************)
C16_BoundedAttempts ==
    wProgram = "render_wakeup" =>
        /\ Len(wLog) <= MAX_RETRIES
        /\ \A i \in 1..Len(wLog) : i < Len(wLog) => ~Success(wLog[i])
        /\ wReturn = "True" <=> (wLog # <<>> /\ Success(wLog[Len(wLog)]))
        /\ wReturn = "False" =>
               /\ \A i \in 1..Len(wLog) : ~Success(wLog[i])
               /\ wUrl => Len(wLog) = MAX_RETRIES
        /\ (Len(wLog) = MAX_RETRIES /\ ~Success(wLog[MAX_RETRIES])) =>
               wReturn = "False"

\* three attempts failed, each in its own way, and the call returned False
C16_Witness ==
    /\ wProgram = "render_wakeup"
    /\ wReturn = "False"
    /\ Len(wLog) = MAX_RETRIES
    /\ wLog[1].exc = "ClientError"
    /\ wLog[2].exc = "TimeoutError"
    /\ wLog[3].status = 500

(***************************************************************************)
(* C17: in both keep-alive loops only a cancellation stops the loop, and   *)
(* every wake-up, failed or not, is followed by another wake-up unless the *)
(* task is cancelled.                                                      *)
(***************************************************************************)
C17_WakeupsGoOn ==
    /\ [](wPc = "stopped" => wCancelled)
    /\ \A n \in 0..(CountMod - 1) :
           (wakeup_count = n) ~> (wakeup_count # n \/ wCancelled)

\* a wake-up failed and the next one is under way
C17_Witness ==
    /\ wPrevFailed
    /\ ~wCancelled
    /\ wPc \in {"attempt", "get"}

(***************************************************************************)
(* Database.add_weather_request on its own: the table weather_requests.    *)
(* The users' rows exist in table users (start has run for them), the      *)
(* calls are transactions that run one after another, and                  *)
(* CURRENT_TIMESTAMP is later in each of them.                             *)
(***************************************************************************)
HISTORY_LIMIT == 15

\* how many requests are added in all
MaxRequests == 17
\* how many of them by the admin
MaxAdminRequests == 2

HistCities == {Moskva}

UserRows(rows, user_id) == {r \in rows : r.user_id = user_id}

\* "SELECT id FROM weather_requests WHERE user_id = %s
\*  ORDER BY timestamp DESC LIMIT 15"
SelectRecentIds(rows, user_id, limit) ==
    LET mine == UserRows(rows, user_id)
    IN  {r.id : r \in {x \in mine :
             Cardinality({y \in mine : y.timestamp > x.timestamp}) < limit}}

\* the row of "INSERT INTO weather_requests (user_id, city, timestamp)
\* VALUES (%s, %s, CURRENT_TIMESTAMP)"
NewRow(user_id, city) ==
    [id |-> hClock + 1, user_id |-> user_id, city |-> city,
     timestamp |-> hClock + 1]

\* a plausible slip: the DELETE without "AND user_id = %s"
add_weather_request_all_users(user_id, city) ==
    LET inserted == weather_requests \cup {NewRow(user_id, city)}
        keep == SelectRecentIds(inserted, user_id, HISTORY_LIMIT)
    IN  {r \in inserted : ~(r.id \notin keep)}

\* add_weather_request: the table after the INSERT and the DELETE
add_weather_request(user_id, city) ==
    LET inserted == weather_requests \cup {NewRow(user_id, city)}
        keep == SelectRecentIds(inserted, user_id, HISTORY_LIMIT)
    IN  {r \in inserted : ~(r.id \notin keep /\ r.user_id = user_id)}

\* get_user_history: the rows of the user, at most limit, the latest first
get_user_history(user_id, limit) ==
    {r \in weather_requests :
         r.id \in SelectRecentIds(weather_requests, user_id, limit)}

\* a handler records a request of the user
AddWeatherRequest(user_id, city) ==
    /\ hClock < MaxRequests
    /\ is_admin(user_id) =>
           Cardinality(UserRows(hAll, user_id)) < MaxAdminRequests
    /\ hClock' = hClock + 1
    /\ weather_requests' = add_weather_request(user_id, city)
    /\ hAll' = hAll \cup {NewRow(user_id, city)}
    /\ UNCHANGED histFrame

InitHistory ==
    /\ CacheInit /\ NormIdle /\ FetchIdle
    /\ ChatIdle /\ cUser = ADMIN_ID
    /\ WakeIdle /\ wProgram = "bot" /\ wUrl = TRUE
    /\ HistIdle
    /\ ButtonIdle

NextHistory ==
    \E user_id \in Users, city \in HistCities : AddWeatherRequest(user_id, city)

SpecHistory == InitHistory /\ [][NextHistory]_vars

(***************************************************************************)
(* C18: after any sequence of add_weather_request calls every user has at  *)
(* most 15 rows in weather_requests, they are the latest of the rows ever  *)
(* inserted for that user (all of them while there are no more than 15),   *)
(* whatever the other users added; get_user_history returns them.          *)
(***************************************************************************)
C18_FifteenMostRecentPerUser ==
    \A u \in Users :
        LET kept == UserRows(weather_requests, u)
            dropped == UserRows(hAll, u) \ kept
        IN  /\ Cardinality(kept) <= 15
            /\ kept \subseteq hAll
            /\ \A d \in dropped : \A k \in kept : d.timestamp < k.timestamp
            /\ dropped # {} => Cardinality(kept) = 15
            /\ get_user_history(u, 15) = kept

\* a user has added more than 15 requests and the admin some in between
C18_Witness ==
    /\ Cardinality(UserRows(hAll, "u1")) >= 16
    /\ Cardinality(UserRows(weather_requests, "u1")) = 15
    /\ UserRows(weather_requests, ADMIN_ID) # {}
    /\ UserRows(weather_requests, ADMIN_ID) = UserRows(hAll, ADMIN_ID)

(***************************************************************************)
(* WeatherBot.button_handler: the callbacks of the inline keyboards.  A    *)
(* callback_data string is a sequence of tokens: a fixed text ("history"), *)
(* or a prefix followed by the rest ("admin_" "stats"; "city_" and the     *)
(* letters of a city), so that startswith and the slice action[5:] are     *)
(* computed on it.  The lookup a "city_" callback starts runs as in Spec.  *)
(***************************************************************************)
\* how many callbacks are dispatched in all
MaxPresses == 4

\* the cities of Config.POPULAR_CITIES the keyboards offer
PopularCities == {Moskva}

StartsWith(action, prefix) ==
    /\ Len(action) >= Len(prefix)
    /\ SubSeq(action, 1, Len(prefix)) = prefix

\* action[5:] of a "city_..." callback, and the city of an "add_fav_..." one
AfterPrefix(action) == SubSeq(action, 2, Len(action))

CityCallback(city) == <<"city_">> \o city
AddFavCallback(city) == <<"add_fav_">> \o city

\* the callbacks of the admin panel
AdminCallbacks ==
    {<<"admin_", "panel">>, <<"admin_", "stats">>, <<"admin_", "logs">>,
     <<"admin_", "clear_cache">>, <<"admin_", "toggle">>}

\* the action string handle_admin_action compares
AdminName(action) ==
    IF action = <<"admin_", "clear_cache">> THEN "admin_clear_cache"
    ELSE IF action = <<"admin_", "toggle">> THEN "admin_toggle"
    ELSE "admin_stats"

\* the methods class WeatherBot defines for button_handler to call
Methods ==
    {"show_main_menu", "show_city_selection", "get_weather_for_city",
     "show_history", "show_favorites", "show_admin_panel",
     "handle_admin_action"}

\* the methods button_handler calls
MethodCalls ==
    Methods \cup {"show_history_list", "show_favorites_list",
                  "show_popular_cities"}

\* "await self.<method>(query)" raises AttributeError for a missing method
Raises(branch) == branch \in MethodCalls \ Methods

\* a plausible slip: the is_admin test of the admin branches left out
AdminBranch_open(user_id, handler) == handler

\* "if self.db.is_admin(user_id): ... else: edit_message_text(access denied)"
AdminBranch(user_id, handler) ==
    IF is_admin(user_id) THEN handler ELSE "access_denied"

\* the if/elif chain of button_handler: the branch taken
Route(user_id, action) ==
    IF ~bot_active /\ ~is_admin(user_id) THEN "bot_disabled"
    ELSE IF action = <<"back_to_main">> THEN "show_main_menu"
    ELSE IF action = <<"weather_city">> THEN "show_city_selection"
    ELSE IF StartsWith(action, <<"city_">>) THEN "get_weather_for_city"
    ELSE IF action = <<"other_city">> THEN "other_city"
    ELSE IF action = <<"history">> THEN "show_history"
    ELSE IF action = <<"history_list">> THEN "show_history_list"
    ELSE IF action = <<"favorites">> THEN "show_favorites"
    ELSE IF action = <<"favorites_list">> THEN "show_favorites_list"
    ELSE IF action = <<"popular">> THEN "show_popular_cities"
    ELSE IF action = <<"admin_", "panel">>
    THEN AdminBranch(user_id, "show_admin_panel")
    ELSE IF StartsWith(action, <<"admin_">>)
    THEN AdminBranch(user_id, "handle_admin_action")
    ELSE "default"

RECURSIVE CitiesByIdDesc(_)
CitiesByIdDesc(rows) ==
    IF rows = {} THEN <<>>
    ELSE LET top == CHOOSE r \in rows : \A q \in rows : q.id <= r.id
         IN  <<top.city>> \o CitiesByIdDesc(rows \ {top})

\* "SELECT city FROM favorite_cities WHERE user_id = %s ORDER BY id DESC"
get_favorite_cities(user_id) ==
    CitiesByIdDesc({r \in favorite_cities : r.user_id = user_id})

\* "INSERT INTO favorite_cities ... ON CONFLICT (user_id, city) DO NOTHING":
\* the table after the call.  No handler of the bot calls it.
add_favorite_city(user_id, city) ==
    IF \E r \in favorite_cities : r.user_id = user_id /\ r.city = city
    THEN favorite_cities
    ELSE favorite_cities \cup
             {[id |-> Cardinality(favorite_cities) + 1, user_id |-> user_id,
               city |-> city]}

\* the callbacks a shown keyboard can emit
Keyboard(shown) ==
    IF shown.kb = "main_menu"
    THEN {<<"weather_city">>, <<"my_cities">>, <<"history">>, <<"favorites">>,
          <<"popular">>, <<"settings">>, <<"admin_", "panel">>}
    ELSE IF shown.kb = "city_selection"
    THEN (IF shown.favs # {} THEN {<<"favorites_list">>} ELSE {})
         \cup (IF shown.hist THEN {<<"history_list">>} ELSE {})
         \cup {CityCallback(c) : c \in PopularCities}
         \cup {<<"other_city">>, <<"back_to_main">>}
    ELSE IF shown.kb = "forecast"
    THEN {AddFavCallback(shown.city), CityCallback(shown.city),
          <<"weather_city">>, <<"back_to_main">>}
    ELSE IF shown.kb = "error" THEN {<<"weather_city">>}
    ELSE IF shown.kb = "back" THEN {<<"back_to_main">>}
    ELSE IF shown.kb = "favorites"
    THEN {CityCallback(c) : c \in shown.favs}
         \cup {<<"other_city">>, <<"back_to_main">>}
    ELSE IF shown.kb = "admin_panel"
    THEN (AdminCallbacks \ {<<"admin_", "panel">>}) \cup {<<"back_to_main">>}
    ELSE IF shown.kb = "admin_back" THEN {<<"admin_", "panel">>}
    ELSE {}

\* every callback a keyboard of the model can emit
CallbackData ==
    {<<"weather_city">>, <<"my_cities">>, <<"history">>, <<"favorites">>,
     <<"popular">>, <<"settings">>, <<"favorites_list">>, <<"history_list">>,
     <<"other_city">>, <<"back_to_main">>}
    \cup AdminCallbacks
    \cup {CityCallback(c) : c \in PopularCities}
    \cup {AddFavCallback(c) : c \in PopularCities}

KeyboardOf(kb) == [NoKeyboard EXCEPT !.kb = kb]

\* the keyboard under the message once the branch has edited it
AfterKeyboard(user_id, action, branch) ==
    LET favs == {r.city : r \in {x \in favorite_cities : x.user_id = user_id}}
    IN  IF branch = "show_main_menu" THEN KeyboardOf("main_menu")
        ELSE IF branch = "show_city_selection"
        THEN [kb |-> "city_selection", city |-> <<>>, favs |-> favs,
              hist |-> get_user_history(user_id, HISTORY_LIMIT) # {}]
        ELSE IF branch = "show_favorites"
        THEN [kb |-> "favorites", city |-> <<>>, favs |-> favs, hist |-> FALSE]
        ELSE IF branch \in {"other_city", "show_history", "default"}
        THEN KeyboardOf("back")
        ELSE IF branch = "show_admin_panel" THEN KeyboardOf("admin_panel")
        ELSE IF branch = "handle_admin_action"
        THEN IF action \in {<<"admin_", "stats">>, <<"admin_", "logs">>}
             THEN KeyboardOf("admin_back")
             ELSE KeyboardOf("admin_panel")
        ELSE NoKeyboard

\* start: the welcome message with the main menu
ButtonsStart(user_id) ==
    /\ task[user_id].pc = "idle"
    /\ bShown[user_id] # KeyboardOf("main_menu")
    /\ bShown' = [bShown EXCEPT ![user_id] = KeyboardOf("main_menu")]
    /\ UNCHANGED <<bLast, bPresses, favorite_cities, favPressed>>
    /\ UNCHANGED <<cacheVars, normVars, fetchVars, chatVars, wakeVars, histVars>>

\* button_handler: one callback, up to the end of the handler or to the
\* await of the lookup
ButtonPress(user_id, action) ==
    /\ bPresses < MaxPresses
    /\ task[user_id].pc = "idle"
    /\ action \in Keyboard(bShown[user_id]) \cup AdminCallbacks
    /\ LET branch == Route(user_id, action)
           emitted == action \in Keyboard(bShown[user_id])
       IN  /\ bLast' = [user |-> user_id, action |-> action,
                        emitted |-> emitted, branch |-> branch,
                        raised |-> Raises(branch)]
           /\ bPresses' = bPresses + 1
           /\ bShown' = IF Raises(branch) THEN bShown
                        ELSE [bShown EXCEPT ![user_id] =
                                  AfterKeyboard(user_id, action, branch)]
           /\ favPressed' =
                  IF emitted /\ StartsWith(action, <<"add_fav_">>)
                             /\ branch # "bot_disabled"
                  THEN [favPressed EXCEPT ![user_id] = @ \cup {AfterPrefix(action)}]
                  ELSE favPressed
           /\ IF branch = "get_weather_for_city"
              THEN GetWeatherForecast(user_id, AfterPrefix(action))
              ELSE UNCHANGED task
           /\ IF branch = "handle_admin_action"
              THEN handle_admin_action(AdminName(action))
              ELSE UNCHANGED <<weather_cache, cleared, bot_active>>
    /\ UNCHANGED <<now, ticks, lastWrite, favorite_cities>>
    /\ UNCHANGED <<normVars, fetchVars, chatVars, wakeVars, histVars>>

\* get_weather_for_city after the lookup: the request is recorded and the
\* forecast shown, or the error text
ShowForecast(user_id) ==
    /\ task[user_id].pc = "done"
    /\ LET city == task[user_id].city
       IN  IF task[user_id].result # None
           THEN /\ weather_requests' = add_weather_request(user_id, city)
                /\ hClock' = hClock + 1
                /\ hAll' = hAll \cup {NewRow(user_id, city)}
                /\ bShown' = [bShown EXCEPT ![user_id] =
                                 [KeyboardOf("forecast") EXCEPT !.city = city]]
           ELSE /\ UNCHANGED histVars
                /\ bShown' = [bShown EXCEPT ![user_id] = KeyboardOf("error")]
    /\ task' = [task EXCEPT ![user_id] = Idle]
    /\ UNCHANGED <<now, ticks, weather_cache, bot_active, lastWrite, cleared>>
    /\ UNCHANGED <<bLast, bPresses, favorite_cities, favPressed>>
    /\ UNCHANGED <<normVars, fetchVars, chatVars, wakeVars>>

InitButtons == CacheInit /\ NormIdle /\ AuxIdle

NextButtons ==
    \/ \E u \in Users : ButtonsStart(u)
    \/ \E u \in Users, action \in CallbackData : ButtonPress(u, action)
    \/ \E u \in Users, ok \in BOOLEAN : FetchReturn(u, ok)
    \/ \E u \in Users : ShowForecast(u)

SpecButtons == InitButtons /\ [][NextButtons]_vars

\* this step is a dispatch of button_handler
Dispatched == bPresses' # bPresses

\* bot_active changes, and the cache is emptied, only in the dispatch of an
\* admin's callback
AdminOnlyChange ==
    /\ bot_active' # bot_active =>
           /\ Dispatched
           /\ is_admin(bLast'.user)
           /\ bLast'.action = <<"admin_", "toggle">>
    /\ (weather_cache # clear_cache /\ weather_cache' = clear_cache) =>
           /\ Dispatched
           /\ is_admin(bLast'.user)
           /\ bLast'.action = <<"admin_", "clear_cache">>

\* this step dispatches an admin_panel or admin_* callback of a user who is
\* not an admin
OtherUserAdminCallback ==
    /\ Dispatched
    /\ ~is_admin(bLast'.user)
    /\ StartsWith(bLast'.action, <<"admin_">>)

(***************************************************************************)
(* C21 as stated: bot_active changes and the cache is cleared only for an  *)
(* admin's callback; an admin callback of any other user changes neither   *)
(* and is answered with "access denied".                                   *)
(***************************************************************************)
C21_OtherUsersDenied ==
    [][/\ AdminOnlyChange
       /\ OtherUserAdminCallback =>
              /\ UNCHANGED <<bot_active, weather_cache>>
              /\ bLast'.branch = "access_denied"]_vars

(***************************************************************************)
(* C21, amended: bot_active changes and the cache is cleared only for an   *)
(* admin's callback; an admin callback of any other user changes neither,  *)
(* and is answered with "access denied" while the bot is enabled and with  *)
(* the "bot disabled" notice while it is disabled.                         *)
(***************************************************************************)
C21_OtherUsersDeniedOrDisabled ==
    [][/\ AdminOnlyChange
       /\ OtherUserAdminCallback =>
              /\ UNCHANGED <<bot_active, weather_cache>>
              /\ bLast'.branch = IF bot_active THEN "access_denied"
                                 ELSE "bot_disabled"]_vars

\* with a forecast in the cache and the bot disabled, a user who is not an
\* admin has sent admin_clear_cache
C21_Witness ==
    /\ ~bot_active
    /\ weather_cache # clear_cache
    /\ bLast.user = "u1"
    /\ bLast.action = <<"admin_", "clear_cache">>
    /\ bLast.branch = "bot_disabled"

(***************************************************************************)
(* C22: every callback a keyboard of the bot emits, apart from "settings", *)
(* is dispatched without raising and not by the default branch.            *)
(***************************************************************************)
C22_EmittedCallbacksRouted ==
    (bLast.emitted /\ bLast.action # <<"settings">>) =>
        /\ ~bLast.raised
        /\ bLast.branch # "default"

(***************************************************************************)
(* C23: once a user has pressed "add to favourites" under a forecast of a  *)
(* city, get_favorite_cities of the user lists that city, exactly once.    *)
(***************************************************************************)
C23_FavouriteListedOnce ==
    \A u \in Users : \A c \in favPressed[u] :
        LET favs == get_favorite_cities(u)
        IN  Cardinality({i \in 1..Len(favs) : favs[i] = c}) = 1

=============================================================================
